---------------------------- MODULE Spec2Model ----------------------------
(***************************************************************************)
(* Model of src/src/lib.rs: the binary codec of a reduced Bitcoin          *)
(* transaction (CompactSize, Txid, OutPoint, Script, TransactionInput,     *)
(* BitcoinTransaction).                                                    *)
(*                                                                         *)
(* Every to_bytes / from_bytes of the library is a pure function and is an *)
(* operator here, computed the way the code computes it.  The state        *)
(* machine is a caller of the library: it holds one in-memory value, one   *)
(* byte buffer (or one text, for the Txid interchange form) and the last   *)
(* result, and each action is one call of the library or one edit of the   *)
(* buffer between two calls.                                               *)
(*                                                                         *)
(* Integers.  TLC's integers are 32-bit, the code's are u16/u32/u64/usize. *)
(* A fixed-width unsigned integer is a little-endian sequence of 16-bit    *)
(* limbs: u16 has 1 limb, u32 has 2, u64 and usize (64-bit target) have 4. *)
(* A byte (u8) and every quantity bounded by a buffer's length is a plain  *)
(* integer.                                                                *)
(***************************************************************************)
EXTENDS Integers, Sequences, FiniteSets, TLC

VARIABLES
    comp,             \* the type whose methods the caller is using
    value,            \* the in-memory value handed to to_bytes / serialize
    bytes,            \* the byte buffer handed to from_bytes
    text,             \* the string handed to Txid's Deserialize
    origin,           \* how the buffer / text was obtained
    result,           \* what the last from_bytes / deserialize returned
    prev,             \* the result of the decode before the last one
    pc,               \* "value", "bytes", "decoded"
    overflow_checks   \* build profile: TRUE = debug (overflow panics), FALSE = release (wraps)

vars == <<comp, value, bytes, text, origin, result, prev, pc, overflow_checks>>

---------------------------------------------------------------------------
(* Fixed-width integers as 16-bit limbs.                                   *)

\* The number of values of a u8, and of a 16-bit limb.
Byte == 256

Limb == Byte * Byte

\* x.to_le_bytes(): the limbs' bytes, least significant first.
to_le_bytes(x) ==
    [i \in 1..(2 * Len(x)) |->
        IF i % 2 = 1 THEN x[(i + 1) \div 2] % Byte ELSE x[i \div 2] \div Byte]

\* uN::from_le_bytes(arr), arr of 2, 4 or 8 bytes.
from_le_bytes(arr) ==
    [i \in 1..(Len(arr) \div 2) |-> arr[2 * i - 1] + Byte * arr[2 * i]]

\* `x as u8`, `x as u16`, `x as u32`: truncating casts of a u64.
as_u8(x) == x[1] % Byte

as_u16(x) == SubSeq(x, 1, 1)

as_u32(x) == SubSeq(x, 1, 2)

\* `x as u64` of a u8 (a plain integer), and of a u16 / u32 (zero extension).
u8_as_u64(n) == <<n, 0, 0, 0>>

as_u64(x) == [i \in 1..4 |-> IF i <= Len(x) THEN x[i] ELSE 0]

\* A length or offset (usize) of the 64-bit target; n is below 2^31.
usize(n) == <<n % Limb, n \div Limb, 0, 0>>

\* a < b and a <= b on two integers of the same width.
LtU(a, b) ==
    \E i \in 1..Len(a) : a[i] < b[i] /\ \A j \in (i + 1)..Len(a) : a[j] = b[j]

LeU(a, b) == a = b \/ LtU(a, b)

\* a + b on usize: the wrapped sum and whether the true sum left the width.
Carry(a, b, i) ==
    LET RECURSIVE C(_)
        C(k) == IF k = 0 THEN 0 ELSE (a[k] + b[k] + C(k - 1)) \div Limb
    IN  C(i)

usize_add(a, b) ==
    [sum      |-> [i \in 1..4 |-> (a[i] + b[i] + Carry(a, b, i - 1)) % Limb],
     overflow |-> Carry(a, b, 4) = 1]

\* A usize known to be at most a buffer's length, as a plain integer.
usize_to_int(x) == x[1] + Limb * x[2]

---------------------------------------------------------------------------
(* Results.                                                                *)

Ok(v, n) == [tag |-> "Ok", value |-> v, consumed |-> n]

Err(e) == [tag |-> "Err", err |-> e]

\* The two variants of enum BitcoinError.
BitcoinError == {"InsufficientBytes", "InvalidFormat"}

\* A panic unwinds out of the call: no Result is returned.
Panic(msg) == [tag |-> "Panic", msg |-> msg]

NoResult == [tag |-> "None"]

\* bytes[from..] and bytes[from..to] of Rust (0-based, end exclusive).
SliceFrom(b, from) == SubSeq(b, from + 1, Len(b))

Slice(b, from, to) == SubSeq(b, from + 1, to)

---------------------------------------------------------------------------
(* CompactSize                                                             *)

CompactSize_new(v) == [value |-> v]

\* Mutant of CompactSize_to_bytes: the first tier's bound off by one (0xFD
\* written as a single byte).
CompactSize_to_bytes_offbyone(self) ==
    IF LeU(self.value, <<253, 0, 0, 0>>)
    THEN <<as_u8(self.value)>>
    ELSE IF LeU(self.value, <<65535, 0, 0, 0>>)
    THEN <<253>> \o to_le_bytes(as_u16(self.value))
    ELSE IF LeU(self.value, <<65535, 65535, 0, 0>>)
    THEN <<254>> \o to_le_bytes(as_u32(self.value))
    ELSE <<255>> \o to_le_bytes(self.value)

CompactSize_to_bytes(self) ==
    IF LeU(self.value, <<252, 0, 0, 0>>)
    THEN <<as_u8(self.value)>>
    ELSE IF LeU(self.value, <<65535, 0, 0, 0>>)
    THEN <<253>> \o to_le_bytes(as_u16(self.value))
    ELSE IF LeU(self.value, <<65535, 65535, 0, 0>>)
    THEN <<254>> \o to_le_bytes(as_u32(self.value))
    ELSE <<255>> \o to_le_bytes(self.value)

\* Mutant of CompactSize_from_bytes: a strict decoder, which refuses a
\* 0xFD encoding of a value that fits one byte.
CompactSize_from_bytes_strict(b) ==
    IF Len(b) = 0
    THEN Err("InsufficientBytes")
    ELSE IF b[1] <= 252
    THEN Ok(CompactSize_new(u8_as_u64(b[1])), 1)
    ELSE IF b[1] = 253
    THEN IF Len(b) < 3
         THEN Err("InsufficientBytes")
         ELSE IF b[3] = 0 /\ b[2] < 253
         THEN Err("InvalidFormat")
         ELSE Ok(CompactSize_new(as_u64(from_le_bytes(Slice(b, 1, 3)))), 3)
    ELSE IF b[1] = 254
    THEN IF Len(b) < 5
         THEN Err("InsufficientBytes")
         ELSE Ok(CompactSize_new(as_u64(from_le_bytes(Slice(b, 1, 5)))), 5)
    ELSE IF Len(b) < 9
         THEN Err("InsufficientBytes")
         ELSE Ok(CompactSize_new(from_le_bytes(Slice(b, 1, 9))), 9)

CompactSize_from_bytes(b) ==
    IF Len(b) = 0
    THEN Err("InsufficientBytes")
    ELSE IF b[1] <= 252
    THEN Ok(CompactSize_new(u8_as_u64(b[1])), 1)
    ELSE IF b[1] = 253
    THEN IF Len(b) < 3
         THEN Err("InsufficientBytes")
         ELSE Ok(CompactSize_new(as_u64(from_le_bytes(Slice(b, 1, 3)))), 3)
    ELSE IF b[1] = 254
    THEN IF Len(b) < 5
         THEN Err("InsufficientBytes")
         ELSE Ok(CompactSize_new(as_u64(from_le_bytes(Slice(b, 1, 5)))), 5)
    ELSE IF Len(b) < 9
         THEN Err("InsufficientBytes")
         ELSE Ok(CompactSize_new(from_le_bytes(Slice(b, 1, 9))), 9)

---------------------------------------------------------------------------
(* Txid: the binary form is the 32 raw bytes.                              *)

Txid(arr) == arr

\* hex::encode and hex::decode (the hex crate, imported at line 1): encode
\* writes two lowercase digits per byte; decode refuses an odd length, then
\* reads every digit in either case and refuses any other character.
HexDigits == <<"0", "1", "2", "3", "4", "5", "6", "7", "8", "9">>

HexLower == HexDigits \o <<"a", "b", "c", "d", "e", "f">>

HexUpper == HexDigits \o <<"A", "B", "C", "D", "E", "F">>

encode(data) ==
    [i \in 1..(2 * Len(data)) |->
        IF i % 2 = 1 THEN HexLower[(data[(i + 1) \div 2] \div 16) + 1]
                     ELSE HexLower[(data[i \div 2] % 16) + 1]]

\* The digit's value, or -1 for a character that is no hex digit.
val(c) ==
    IF \E k \in 1..16 : HexLower[k] = c
    THEN (CHOOSE k \in 1..16 : HexLower[k] = c) - 1
    ELSE IF \E k \in 1..16 : HexUpper[k] = c
    THEN (CHOOSE k \in 1..16 : HexUpper[k] = c) - 1
    ELSE -1

decode(s) ==
    IF Len(s) % 2 # 0
    THEN [tag |-> "Err", err |-> "Odd number of digits"]
    ELSE IF \E i \in 1..Len(s) : val(s[i]) < 0
    THEN [tag |-> "Err", err |-> "Invalid character"]
    ELSE [tag |-> "Ok",
          value |-> [i \in 1..(Len(s) \div 2) |->
                        16 * val(s[2 * i - 1]) + val(s[2 * i])]]

\* serde::de::Error::custom(msg): an error of the deserializer's own type
\* D::Error; it is no BitcoinError.
custom(msg) == [tag |-> "Err", err |-> "serde::de::Error::custom", msg |-> msg]

\* Mutant of Txid_serialize: uppercase digits.
Txid_serialize_upper(self) ==
    [i \in 1..(2 * Len(self)) |->
        IF i % 2 = 1 THEN HexUpper[(self[(i + 1) \div 2] \div 16) + 1]
                     ELSE HexUpper[(self[i \div 2] % 16) + 1]]

\* impl Serialize for Txid: the string handed to serialize_str.
Txid_serialize(self) == encode(self)

\* Mutant of Txid_deserialize: the length check left out.
Txid_deserialize_anylen(s) ==
    LET d == decode(s) IN
    IF d.tag # "Ok"
    THEN custom(d.err)
    ELSE [tag |-> "Ok", value |-> Txid(d.value)]

\* impl Deserialize for Txid, from the string s the deserializer yields.
Txid_deserialize(s) ==
    LET d == decode(s) IN
    IF d.tag # "Ok"
    THEN custom(d.err)
    ELSE IF Len(d.value) # 32
    THEN custom("Invalid Txid length")
    ELSE [tag |-> "Ok", value |-> Txid(d.value)]

---------------------------------------------------------------------------
(* OutPoint                                                                *)

OutPoint_new(txid, vout) == [txid |-> Txid(txid), vout |-> vout]

OutPoint_to_bytes(self) == self.txid \o to_le_bytes(self.vout)

OutPoint_from_bytes(b) ==
    IF Len(b) < 36
    THEN Err("InsufficientBytes")
    ELSE Ok(OutPoint_new(Slice(b, 0, 32), from_le_bytes(Slice(b, 32, 36))), 36)

---------------------------------------------------------------------------
(* Script                                                                  *)

Script_new(b) == [bytes |-> b]

Script_to_bytes(self) ==
    CompactSize_to_bytes(CompactSize_new(usize(Len(self.bytes)))) \o self.bytes

\* Mutant of Script_from_bytes: a short payload is taken as it is instead
\* of being refused.
Script_from_bytes_clamped(b) ==
    LET r == CompactSize_from_bytes(b) IN
    IF r.tag # "Ok"
    THEN r
    ELSE LET add == usize_add(usize(r.consumed), r.value.value) IN
         IF add.overflow \/ LtU(usize(Len(b)), add.sum)
         THEN Ok(Script_new(SliceFrom(b, r.consumed)), Len(b))
         ELSE Ok(Script_new(Slice(b, r.consumed, usize_to_int(add.sum))),
                 usize_to_int(add.sum))

\* Mutant of Script_from_bytes: the buffer must end with the payload.
Script_from_bytes_exact(b) ==
    LET r == CompactSize_from_bytes(b) IN
    IF r.tag # "Ok"
    THEN r
    ELSE LET add == usize_add(usize(r.consumed), r.value.value) IN
         IF add.overflow \/ usize(Len(b)) # add.sum
         THEN Err("InsufficientBytes")
         ELSE Ok(Script_new(SliceFrom(b, r.consumed)), Len(b))

\* let total_len = consumed + (len_prefix.value as usize);
\* the sum is computed in usize: a debug build panics when it overflows, a
\* release build wraps.  bytes[consumed..total_len] panics when
\* total_len < consumed (total_len <= bytes.len() was checked before it).
Script_from_bytes(b) ==
    LET r == CompactSize_from_bytes(b) IN
    IF r.tag # "Ok"
    THEN r
    ELSE LET len_prefix == r.value
             consumed   == r.consumed
             add        == usize_add(usize(consumed), len_prefix.value)
             total_len  == add.sum
         IN  IF add.overflow /\ overflow_checks
             THEN Panic("attempt to add with overflow")
             ELSE IF LtU(usize(Len(b)), total_len)
             THEN Err("InsufficientBytes")
             ELSE IF usize_to_int(total_len) < consumed
             THEN Panic("slice index starts after its end")
             ELSE Ok(Script_new(Slice(b, consumed, usize_to_int(total_len))),
                     usize_to_int(total_len))

---------------------------------------------------------------------------
(* TransactionInput                                                        *)

TransactionInput_new(previous_output, script_sig, sequence) ==
    [previous_output |-> previous_output,
     script_sig      |-> script_sig,
     sequence        |-> sequence]

TransactionInput_to_bytes(self) ==
    OutPoint_to_bytes(self.previous_output)
        \o Script_to_bytes(self.script_sig)
        \o to_le_bytes(self.sequence)

\* Mutant of TransactionInput_from_bytes: the 4 bytes of the sequence are
\* left out of the consumed count.
TransactionInput_from_bytes_short(b) ==
    LET o == OutPoint_from_bytes(b) IN
    IF o.tag # "Ok"
    THEN o
    ELSE LET s == Script_from_bytes(SliceFrom(b, o.consumed)) IN
         IF s.tag # "Ok"
         THEN s
         ELSE LET total == o.consumed + s.consumed IN
              IF Len(b) < total + 4
              THEN Err("InsufficientBytes")
              ELSE Ok(TransactionInput_new(o.value, s.value,
                          from_le_bytes(Slice(b, total, total + 4))),
                      total)

TransactionInput_from_bytes(b) ==
    LET o == OutPoint_from_bytes(b) IN
    IF o.tag # "Ok"
    THEN o
    ELSE LET s == Script_from_bytes(SliceFrom(b, o.consumed)) IN
         IF s.tag # "Ok"
         THEN s
         ELSE LET total == o.consumed + s.consumed IN
              IF Len(b) < total + 4
              THEN Err("InsufficientBytes")
              ELSE Ok(TransactionInput_new(o.value, s.value,
                          from_le_bytes(Slice(b, total, total + 4))),
                      total + 4)

---------------------------------------------------------------------------
(* BitcoinTransaction                                                      *)

BitcoinTransaction_new(version, inputs, lock_time) ==
    [version |-> version, inputs |-> inputs, lock_time |-> lock_time]

\* for input in &self.inputs { v.extend_from_slice(&input.to_bytes()); }
RECURSIVE InputsToBytes(_)
InputsToBytes(inputs) ==
    IF inputs = <<>>
    THEN <<>>
    ELSE TransactionInput_to_bytes(Head(inputs)) \o InputsToBytes(Tail(inputs))

\* Mutant of BitcoinTransaction_to_bytes: the lock time written before the
\* inputs.
BitcoinTransaction_to_bytes_reordered(self) ==
    to_le_bytes(self.version)
        \o CompactSize_to_bytes(CompactSize_new(usize(Len(self.inputs))))
        \o to_le_bytes(self.lock_time)
        \o InputsToBytes(self.inputs)

BitcoinTransaction_to_bytes(self) ==
    to_le_bytes(self.version)
        \o CompactSize_to_bytes(CompactSize_new(usize(Len(self.inputs))))
        \o InputsToBytes(self.inputs)
        \o to_le_bytes(self.lock_time)

\* for _ in 0..cs.value { ... }: i iterations done, the running offset and
\* the inputs pushed so far.  Returns the error or panic of the input that
\* fails, or the inputs and the offset after the last iteration.
RECURSIVE InputsLoop(_, _, _, _, _)
InputsLoop(b, count, i, offset, inputs) ==
    IF ~LtU(usize(i), count)
    THEN [tag |-> "Done", inputs |-> inputs, offset |-> offset]
    ELSE LET r == TransactionInput_from_bytes(SliceFrom(b, offset)) IN
         IF r.tag # "Ok"
         THEN r
         ELSE InputsLoop(b, count, i + 1, offset + r.consumed,
                         Append(inputs, r.value))

BitcoinTransaction_from_bytes(b) ==
    IF Len(b) < 4
    THEN Err("InsufficientBytes")
    ELSE LET version == from_le_bytes(Slice(b, 0, 4))
             c       == CompactSize_from_bytes(SliceFrom(b, 4))
         IN  IF c.tag # "Ok"
             THEN c
             ELSE LET l == InputsLoop(b, c.value.value, 0, 4 + c.consumed, <<>>) IN
                  IF l.tag # "Done"
                  THEN l
                  ELSE IF Len(b) < l.offset + 4
                  THEN Err("InsufficientBytes")
                  ELSE Ok(BitcoinTransaction_new(version, l.inputs,
                              from_le_bytes(Slice(b, l.offset, l.offset + 4))),
                          l.offset + 4)

---------------------------------------------------------------------------
(* The values and buffers the caller draws from.                           *)

MaxScriptLen == 2

MaxInputs == 2

MaxSuffix == 2

MaxRawLen == 14

Rep(n, b) == [i \in 1..n |-> b]

SeqsUpTo(S, n) == UNION {[1..k -> S] : k \in 0..n}

\* u64 values around every tier boundary of CompactSize and around 2^64.
U64Samples ==
    { <<0, 0, 0, 0>>, <<1, 0, 0, 0>>, <<5, 0, 0, 0>>, <<252, 0, 0, 0>>,
      <<253, 0, 0, 0>>, <<254, 0, 0, 0>>, <<255, 0, 0, 0>>, <<256, 0, 0, 0>>,
      <<65535, 0, 0, 0>>, <<0, 1, 0, 0>>, <<1, 1, 0, 0>>,
      <<65535, 65535, 0, 0>>, <<0, 0, 1, 0>>, <<4660, 22136, 39612, 57072>>,
      <<65526, 65535, 65535, 65535>>, <<65527, 65535, 65535, 65535>>,
      <<65535, 65535, 65535, 65535>> }

\* u32 values: 0, 1, 2, 500000, 0x01020304, 0xFFFFFFFF.
U32Samples ==
    { <<0, 0>>, <<1, 0>>, <<2, 0>>, <<41248, 7>>, <<772, 258>>, <<65535, 65535>> }

TxidSamples ==
    { Rep(32, 0), Rep(32, 255), [i \in 1..32 |-> i - 1],
      [i \in 1..32 |-> (37 * i + 171) % Byte] }

ScriptBytes == {0, 253, 255}

\* Scripts of every content up to MaxScriptLen, and scripts whose length
\* sits on the first tier boundary of the length prefix.
ScriptSamples ==
    { Script_new(b) : b \in SeqsUpTo(ScriptBytes, MaxScriptLen) }
        \cup { Script_new([i \in 1..n |-> i % Byte]) : n \in {252, 253, 300} }

OutPointSamples ==
    { OutPoint_new(t, v) : t \in TxidSamples, v \in {<<0, 0>>, <<1, 0>>, <<65535, 65535>>} }

TransactionInputSamples ==
    { TransactionInput_new(o, s, q) :
        o \in { OutPoint_new(Rep(32, 0), <<0, 0>>),
                OutPoint_new([i \in 1..32 |-> i - 1], <<65535, 65535>>) },
        s \in { Script_new(b) : b \in SeqsUpTo(ScriptBytes, MaxScriptLen) },
        q \in { <<65535, 65535>>, <<772, 258>> } }

\* The inputs transactions are built from.
TxInputs ==
    { TransactionInput_new(OutPoint_new(Rep(32, 0), <<0, 0>>),
                           Script_new(<<>>), <<65535, 65535>>),
      TransactionInput_new(OutPoint_new([i \in 1..32 |-> i - 1], <<1, 0>>),
                           Script_new(<<253, 0>>), <<772, 258>>) }

BitcoinTransactionSamples ==
    { BitcoinTransaction_new(v, ins, l) :
        v \in { <<1, 0>>, <<2, 0>> },
        ins \in SeqsUpTo(TxInputs, MaxInputs),
        l \in { <<0, 0>>, <<41248, 7>> } }

Components ==
    {"CompactSize", "OutPoint", "Script", "TransactionInput", "BitcoinTransaction", "Txid"}

Values(c) ==
    CASE c = "CompactSize"        -> { CompactSize_new(v) : v \in U64Samples }
      [] c = "OutPoint"           -> OutPointSamples
      [] c = "Script"             -> ScriptSamples
      [] c = "TransactionInput"   -> TransactionInputSamples
      [] c = "BitcoinTransaction" -> BitcoinTransactionSamples
      [] c = "Txid"               -> TxidSamples

\* Buffers that are nobody's encoding: a first byte of every tier, then a
\* payload, cut at every length up to MaxRawLen.
RawMarkers == {0, 5, 252, 253, 254, 255}

RawPayloads ==
    { Rep(MaxRawLen, 0), Rep(MaxRawLen, 255),
      <<5>> \o Rep(MaxRawLen, 0),
      <<246>> \o Rep(MaxRawLen, 255),
      <<247>> \o Rep(MaxRawLen, 255),
      [i \in 1..MaxRawLen |-> i] }

RawPrefixed ==
    { SubSeq(<<m>> \o p, 1, n) : m \in RawMarkers, p \in RawPayloads, n \in 0..MaxRawLen }

Raw(c) ==
    CASE c = "CompactSize"        -> RawPrefixed
      [] c = "Script"             -> RawPrefixed
      [] c = "TransactionInput"   ->
            { OutPoint_to_bytes(OutPoint_new(Rep(32, 0), <<1, 0>>)) \o r : r \in RawPrefixed }
      [] c = "BitcoinTransaction" ->
            { to_le_bytes(<<1, 0>>) \o r : r \in RawPrefixed }
              \cup { to_le_bytes(<<1, 0>>) \o <<1>>
                        \o OutPoint_to_bytes(OutPoint_new(Rep(32, 0), <<1, 0>>)) \o r :
                     r \in RawPrefixed }

Suffixes == SeqsUpTo({255}, MaxSuffix)

CorruptBytes == {2, 255}

TextChars == {"0", "f", "A", "F", "g", " "}

TextSuffixes == SeqsUpTo({"0", "F", "g"}, MaxSuffix)

NoValue == [tag |-> "None"]

---------------------------------------------------------------------------
(* The caller.                                                             *)

Init ==
    /\ overflow_checks \in BOOLEAN
    /\ text = <<>>
    /\ result = NoResult
    /\ prev = NoResult
    /\ \/ /\ pc = "value"
          /\ comp \in Components
          /\ value \in Values(comp)
          /\ bytes = <<>>
          /\ origin = "none"
       \/ /\ pc = "bytes"
          /\ comp \in {"CompactSize", "Script", "TransactionInput", "BitcoinTransaction"}
          /\ value = NoValue
          /\ bytes \in Raw(comp)
          /\ origin = "raw"

Encoded(c, b) ==
    /\ pc = "value"
    /\ comp = c
    /\ bytes' = b
    /\ origin' = "encoded"
    /\ pc' = "bytes"
    /\ UNCHANGED <<comp, value, text, result, prev, overflow_checks>>

Decoded(c, r) ==
    /\ pc = "bytes"
    /\ comp = c
    /\ result' = r
    /\ prev' = result
    /\ pc' = "decoded"
    /\ UNCHANGED <<comp, value, bytes, text, origin, overflow_checks>>

CompactSizeToBytes == Encoded("CompactSize", CompactSize_to_bytes(value))

CompactSizeFromBytes == Decoded("CompactSize", CompactSize_from_bytes(bytes))

OutPointToBytes == Encoded("OutPoint", OutPoint_to_bytes(value))

OutPointFromBytes == Decoded("OutPoint", OutPoint_from_bytes(bytes))

ScriptToBytes == Encoded("Script", Script_to_bytes(value))

ScriptFromBytes == Decoded("Script", Script_from_bytes(bytes))

TransactionInputToBytes == Encoded("TransactionInput", TransactionInput_to_bytes(value))

TransactionInputFromBytes == Decoded("TransactionInput", TransactionInput_from_bytes(bytes))

BitcoinTransactionToBytes == Encoded("BitcoinTransaction", BitcoinTransaction_to_bytes(value))

BitcoinTransactionFromBytes == Decoded("BitcoinTransaction", BitcoinTransaction_from_bytes(bytes))

TxidSerialize ==
    /\ pc = "value"
    /\ comp = "Txid"
    /\ text' = Txid_serialize(value)
    /\ origin' = "encoded"
    /\ pc' = "bytes"
    /\ UNCHANGED <<comp, value, bytes, result, prev, overflow_checks>>

TxidDeserialize ==
    /\ pc = "bytes"
    /\ comp = "Txid"
    /\ result' = Txid_deserialize(text)
    /\ prev' = result
    /\ pc' = "decoded"
    /\ UNCHANGED <<comp, value, bytes, text, origin, overflow_checks>>

\* The caller's edits of an encoding before it decodes it.
Editable ==
    /\ pc = "bytes"
    /\ origin = "encoded"
    /\ comp # "Txid"

Edit(b, o) ==
    /\ bytes' = b
    /\ origin' = o
    /\ UNCHANGED <<comp, value, text, result, prev, pc, overflow_checks>>

Truncate ==
    /\ Editable
    /\ \E n \in 0..(Len(bytes) - 1) : Edit(SubSeq(bytes, 1, n), "truncated")

Extend ==
    /\ Editable
    /\ \E s \in Suffixes \ {<<>>} : Edit(bytes \o s, "extended")

Corrupt ==
    /\ Editable
    /\ \E k \in 1..Len(bytes) : \E b \in CorruptBytes \ {bytes[k]} :
        Edit([bytes EXCEPT ![k] = b], "corrupted")

\* After a successful decode: keep the consumed bytes, replace what follows.
Resuffix ==
    /\ pc = "decoded"
    /\ comp # "Txid"
    /\ origin # "resuffixed"
    /\ result.tag = "Ok"
    /\ result.consumed <= Len(bytes)
    /\ \E s \in Suffixes : bytes' = SubSeq(bytes, 1, result.consumed) \o s
    /\ origin' = "resuffixed"
    /\ pc' = "bytes"
    /\ UNCHANGED <<comp, value, text, result, prev, overflow_checks>>

TextEditable ==
    /\ pc = "bytes"
    /\ origin = "encoded"
    /\ comp = "Txid"

EditText(t, o) ==
    /\ text' = t
    /\ origin' = o
    /\ UNCHANGED <<comp, value, bytes, result, prev, pc, overflow_checks>>

TextUpper ==
    /\ TextEditable
    /\ EditText([i \in 1..Len(text) |->
                 HexUpper[(CHOOSE k \in 1..16 : HexLower[k] = text[i])]], "upper")

TextReplace ==
    /\ TextEditable
    /\ \E k \in {1, 2, 33, 64} : \E c \in TextChars \ {text[k]} :
        EditText([text EXCEPT ![k] = c], "replaced")

TextTruncate ==
    /\ TextEditable
    /\ \E n \in 0..(Len(text) - 1) : EditText(SubSeq(text, 1, n), "truncated")

TextExtend ==
    /\ TextEditable
    /\ \E s \in TextSuffixes \ {<<>>} : EditText(text \o s, "extended")

Next ==
    \/ CompactSizeToBytes
    \/ CompactSizeFromBytes
    \/ OutPointToBytes
    \/ OutPointFromBytes
    \/ ScriptToBytes
    \/ ScriptFromBytes
    \/ TransactionInputToBytes
    \/ TransactionInputFromBytes
    \/ BitcoinTransactionToBytes
    \/ BitcoinTransactionFromBytes
    \/ TxidSerialize
    \/ TxidDeserialize
    \/ Truncate
    \/ Extend
    \/ Corrupt
    \/ Resuffix
    \/ TextUpper
    \/ TextReplace
    \/ TextTruncate
    \/ TextExtend

Spec == Init /\ [][Next]_vars

---------------------------------------------------------------------------
(* Properties.                                                             *)

\* C1. Round trip: decoding the encoding of a CompactSize, OutPoint, Script,
\* TransactionInput or BitcoinTransaction succeeds and returns the value
\* that was encoded together with the length of its encoding.
RoundTrip ==
    (pc = "decoded" /\ origin = "encoded" /\ comp # "Txid")
        => result = Ok(value, Len(bytes))

RoundTripWitness ==
    /\ pc = "decoded"
    /\ origin = "encoded"
    /\ comp = "BitcoinTransaction"
    /\ Len(value.inputs) = MaxInputs
    /\ result.tag = "Ok"
    /\ Len(result.value.inputs) = MaxInputs

\* C2. Truncation: decoding any strict prefix of an encoding (the empty
\* buffer included) returns Err(InsufficientBytes), for every component.
TruncationFails ==
    (pc = "decoded" /\ origin = "truncated" /\ comp # "Txid")
        => result = Err("InsufficientBytes")

TruncationWitness ==
    /\ pc = "decoded"
    /\ origin = "truncated"
    /\ comp = "BitcoinTransaction"
    /\ Len(value.inputs) > 0
    /\ Len(bytes) = Len(BitcoinTransaction_to_bytes(value)) - 1
    /\ result.tag = "Err"

\* C3. Minimal tier: CompactSize::to_bytes writes n itself in 1 byte when
\* n <= 252, 0xFD and 2 little-endian bytes when n <= 65535, 0xFE and 4
\* little-endian bytes when n <= 4294967295, and 0xFF and 8 little-endian
\* bytes otherwise; 252 encodes as [0xFC] and 253 as [0xFD, 0xFD, 0x00].
LimbAt(b, i) == b[2 * i] + 256 * b[2 * i + 1]

MinimalTier ==
    (comp = "CompactSize" /\ origin = "encoded") =>
        LET n == value.value
            b == bytes
        IN  /\ \A i \in 1..Len(b) : b[i] \in 0..255
            /\ IF n[4] = 0 /\ n[3] = 0 /\ n[2] = 0 /\ n[1] <= 252
               THEN b = <<n[1]>>
               ELSE IF n[4] = 0 /\ n[3] = 0 /\ n[2] = 0
               THEN Len(b) = 3 /\ b[1] = 253 /\ LimbAt(b, 1) = n[1]
               ELSE IF n[4] = 0 /\ n[3] = 0
               THEN Len(b) = 5 /\ b[1] = 254 /\ \A i \in 1..2 : LimbAt(b, i) = n[i]
               ELSE Len(b) = 9 /\ b[1] = 255 /\ \A i \in 1..4 : LimbAt(b, i) = n[i]
            /\ (n = <<252, 0, 0, 0>> => b = <<252>>)
            /\ (n = <<253, 0, 0, 0>> => b = <<253, 253, 0>>)

MinimalTierWitness ==
    /\ comp = "CompactSize"
    /\ origin = "encoded"
    /\ value.value = <<253, 0, 0, 0>>
    /\ bytes = <<253, 253, 0>>

\* C4. Lenient, total decoding of CompactSize: on a non-empty buffer the
\* first byte alone selects the width (1, 3, 5 or 9); from_bytes succeeds
\* exactly when the buffer holds that many bytes, returning the payload's
\* little-endian value and the width, whether or not the encoding is
\* minimal; otherwise it returns InsufficientBytes, never InvalidFormat.
TierWidth(first) ==
    IF first <= 252 THEN 1 ELSE IF first = 253 THEN 3 ELSE IF first = 254 THEN 5 ELSE 9

LenientDecode ==
    (comp = "CompactSize" /\ pc = "decoded" /\ bytes # <<>>) =>
        LET w == TierWidth(bytes[1]) IN
        IF Len(bytes) >= w
        THEN /\ result.tag = "Ok"
             /\ result.consumed = w
             /\ Len(result.value.value) = 4
             /\ \A i \in 1..4 :
                   result.value.value[i] =
                       IF w = 1 THEN (IF i = 1 THEN bytes[1] ELSE 0)
                       ELSE IF 2 * i + 1 <= w THEN LimbAt(bytes, i) ELSE 0
        ELSE result = Err("InsufficientBytes")

LenientDecodeWitness ==
    /\ comp = "CompactSize"
    /\ pc = "decoded"
    /\ bytes = <<253, 5, 0>>
    /\ result = Ok(CompactSize_new(<<5, 0, 0, 0>>), 3)

\* C5. Script::from_bytes checks the declared length L for every u64 L:
\* when fewer than L bytes follow the prefix the call returns
\* Err(InsufficientBytes), without overflow and without slicing out of
\* bounds.
ScriptLengthCheck ==
    (comp = "Script" /\ pc = "decoded") =>
        LET p == CompactSize_from_bytes(bytes) IN
        (p.tag = "Ok" /\ LtU(usize(Len(bytes) - p.consumed), p.value.value))
            => result = Err("InsufficientBytes")

\* The example of C6: version 2, one input (txid of 32 zero bytes, vout 0,
\* empty script_sig, sequence 0xFFFFFFFF), lock_time 500000, and the bytes
\* 02000000 01 00*32 00000000 00 FFFFFFFF 20A10700.
ExampleTx ==
    BitcoinTransaction_new(<<2, 0>>,
        << TransactionInput_new(OutPoint_new(Rep(32, 0), <<0, 0>>),
                                Script_new(<<>>), <<65535, 65535>>) >>,
        <<41248, 7>>)

ExampleBytes ==
    <<2, 0, 0, 0>> \o <<1>> \o Rep(32, 0) \o <<0, 0, 0, 0>> \o <<0>>
        \o <<255, 255, 255, 255>> \o <<32, 161, 7, 0>>

\* C6 as stated: decoding the example's bytes reports 45 bytes consumed.
TransactionExample45 ==
    /\ (comp = "BitcoinTransaction" /\ origin = "encoded" /\ value = ExampleTx)
          => bytes = ExampleBytes
    /\ (comp = "BitcoinTransaction" /\ pc = "decoded" /\ bytes = ExampleBytes)
          => result = Ok(ExampleTx, 45)

\* C6, amended: the example transaction encodes to exactly the bytes listed,
\* which are 4 + 1 + 32 + 4 + 1 + 4 + 4 = 50 bytes, and decoding them
\* returns the transaction with 50 bytes consumed.
TransactionExample ==
    /\ Len(ExampleBytes) = 50
    /\ (comp = "BitcoinTransaction" /\ origin = "encoded" /\ value = ExampleTx)
          => bytes = ExampleBytes
    /\ (comp = "BitcoinTransaction" /\ pc = "decoded" /\ bytes = ExampleBytes)
          => result = Ok(ExampleTx, 50)

TransactionExampleWitness ==
    /\ comp = "BitcoinTransaction"
    /\ pc = "decoded"
    /\ origin = "encoded"
    /\ value = ExampleTx
    /\ bytes = ExampleBytes
    /\ result.tag = "Ok"

LowerHexChars ==
    {"0", "1", "2", "3", "4", "5", "6", "7", "8", "9", "a", "b", "c", "d", "e", "f"}

AnyHexChars == LowerHexChars \cup {"A", "B", "C", "D", "E", "F"}

\* The text is not hexadecimal (a character that is no hex digit, or an odd
\* length), or it does not stand for exactly 32 bytes.
BadTxidText ==
    \/ \E i \in 1..Len(text) : text[i] \notin AnyHexChars
    \/ Len(text) % 2 # 0
    \/ Len(text) # 64

\* C7 as stated: decoding a Txid from a text that is not hexadecimal or not
\* 32 bytes long fails with BitcoinError::InvalidFormat, and the hex text
\* of every 32-byte array decodes to that array.
TxidTextInvalidFormat ==
    (comp = "Txid" /\ pc = "decoded") =>
        /\ origin = "encoded" => result = [tag |-> "Ok", value |-> value]
        /\ BadTxidText => result = Err("InvalidFormat")

\* C7, amended: such a text fails with an error of the deserializer, built
\* by serde::de::Error::custom, which is no BitcoinError; the hex text of
\* every 32-byte array decodes to that array.
TxidTextCustomError ==
    (comp = "Txid" /\ pc = "decoded") =>
        /\ origin = "encoded" => result = [tag |-> "Ok", value |-> value]
        /\ BadTxidText =>
              /\ result.tag = "Err"
              /\ result.err = "serde::de::Error::custom"
              /\ result.err \notin BitcoinError

TxidTextCustomErrorWitness ==
    /\ comp = "Txid"
    /\ pc = "decoded"
    /\ Len(text) = 63
    /\ result.tag = "Err"

\* C8 as stated: the text written for a Txid is 64 lowercase hex characters
\* and decoding rejects every text that is not 64 characters of 0-9a-f.
TxidTextLowercaseOnly ==
    comp = "Txid" =>
        /\ origin = "encoded" =>
              Len(text) = 64 /\ \A i \in 1..64 : text[i] \in LowerHexChars
        /\ (pc = "decoded" /\ result.tag = "Ok") =>
              Len(text) = 64 /\ \A i \in 1..64 : text[i] \in LowerHexChars

\* C8, amended: the text written for a Txid is 64 lowercase hex characters;
\* decoding accepts exactly the texts of 64 hex digits of either case
\* (0-9, a-f, A-F) and rejects every other text.
TxidTextEitherCase ==
    comp = "Txid" =>
        /\ origin = "encoded" =>
              Len(text) = 64 /\ \A i \in 1..64 : text[i] \in LowerHexChars
        /\ pc = "decoded" =>
              (result.tag = "Ok" <=>
                  Len(text) = 64 /\ \A i \in 1..64 : text[i] \in AnyHexChars)

TxidTextEitherCaseWitness ==
    /\ comp = "Txid"
    /\ pc = "decoded"
    /\ origin = "upper"
    /\ \E i \in 1..Len(text) : text[i] \in {"A", "B", "C", "D", "E", "F"}
    /\ result = [tag |-> "Ok", value |-> value]

\* The offset after decoding the inputs ins one after the other from
\* offset, each starting where the previous one ended; -1 when one of them
\* does not decode to the input given.
RECURSIVE InputsEndAt(_, _, _)
InputsEndAt(b, offset, ins) ==
    IF ins = <<>>
    THEN offset
    ELSE LET r == TransactionInput_from_bytes(SliceFrom(b, offset)) IN
         IF r.tag = "Ok" /\ r.value = Head(ins)
         THEN InputsEndAt(b, offset + r.consumed, Tail(ins))
         ELSE -1

\* C9. BitcoinTransaction::from_bytes is all or nothing: it returns Ok with
\* exactly the declared count of inputs, decoded back to back in buffer
\* order, and consumed = 4 + count width + the inputs' lengths + 4, at most
\* the buffer's length; on every other buffer it returns
\* Err(InsufficientBytes).
TransactionPipeline ==
    (comp = "BitcoinTransaction" /\ pc = "decoded") =>
        \/ result = Err("InsufficientBytes")
        \/ /\ result.tag = "Ok"
           /\ Len(bytes) >= 4
           /\ LET c == CompactSize_from_bytes(SliceFrom(bytes, 4)) IN
              /\ c.tag = "Ok"
              /\ usize(Len(result.value.inputs)) = c.value.value
              /\ result.consumed <= Len(bytes)
              /\ InputsEndAt(bytes, 4 + c.consumed, result.value.inputs) + 4
                    = result.consumed

\* C10. Trailing bytes: a successful from_bytes consumes at most the
\* buffer, and decoding the consumed bytes followed by any other suffix
\* returns the same value and the same consumed count.
TrailingBytesIgnored ==
    /\ (pc = "decoded" /\ comp # "Txid" /\ result.tag = "Ok")
          => result.consumed <= Len(bytes)
    /\ (pc = "decoded" /\ origin = "resuffixed") => result = prev

TrailingBytesWitness ==
    /\ pc = "decoded"
    /\ origin = "resuffixed"
    /\ comp = "TransactionInput"
    /\ result.tag = "Ok"
    /\ Len(bytes) = result.consumed + MaxSuffix

=============================================================================
